---------------------------- MODULE Spec2Model ----------------------------
(***************************************************************************)
(* State-machine model of the widgets of tambo-ai/linear-mcp-demo:         *)
(*   - the widget registry (lib/tambo.ts) and the page that hands it to    *)
(*     the provider (app/page.tsx),                                        *)
(*   - DataCard (components/ui/card-data.tsx),                             *)
(*   - EditableIssueTable and EditableIssueTableWithTamboSave              *)
(*     (components/ui/editable-issue-table.tsx),                           *)
(*   - RenderDiagram (components/ui/render-diagram.tsx).                   *)
(* Each widget has its own specification (CardSpec, TableSpec,             *)
(* DiagramSpec); Spec is the page with its registry.                       *)
(***************************************************************************)
EXTENDS Integers, Sequences, FiniteSets, TLC

VARIABLES
  \* ---- page / registry
  provider,      \* the components prop TamboProvider received
  thread,        \* names of the registered components rendered into the thread
  \* ---- DataCard
  state,         \* useTamboComponentState value: [defined, selectedValues]
  windowOpens,   \* urls passed to window.open, in call order
  cardHist,      \* the last two handler runs: [op, arg, before]
  \* ---- EditableIssueTableWithTamboSave / EditableIssueTable
  props,         \* props the host gives the registered table: issues, maybe onSave
  editState,     \* edit buffer, in insertion order: <<[id, changes]>>
  isSaving,      \* React state isSaving
  inflight,      \* onSave promises not yet settled: [fn, batch, content]
  calls,         \* calls made so far: [send, host]
  written,       \* ghost: (key, field) -> value last accepted since the last clear
  tableLast,     \* ghost: the last handler run: [op, before, batch, callsBefore]
  \* ---- RenderDiagram
  scope,           \* props, generation stage and state as of the last render
  isLoading,       \* React state
  error,           \* React state: message or NULL
  isInitialized,   \* React state
  lastValidSvg,    \* React state: svg or NULL
  innerHTML,       \* diagramRef.current.innerHTML
  lifecycle,       \* "created", "mounted" or "unmounted"
  renderCalls,     \* pending mermaid.render calls: what renderDiagram closed over
  initializeCalls, \* themes passed to mermaid.initialize, in call order
  failedFixed,     \* ghost: a render of the current diagram failed and neither
                   \* the diagram nor the generation stage changed since
  settledCurrent,  \* ghost: a render of the current diagram has settled
  diagramLast      \* ghost: the last step of the widget: [op, ok, diagram,
                   \* started, retry, hadValid, complete]

pageVars == <<provider, thread>>
cardVars == <<state, windowOpens, cardHist>>
tableVars == <<props, editState, isSaving, inflight, calls, written, tableLast>>
diagramVars == <<scope, isLoading, error, isInitialized, lastValidSvg, innerHTML,
                 lifecycle, renderCalls, initializeCalls, failedFixed,
                 settledCurrent, diagramLast>>
vars == <<pageVars, cardVars, tableVars, diagramVars>>

\* JavaScript null / undefined for string-valued slots.
NULL == "<null>"

(***************************************************************************)
(* Bounds of the model.                                                    *)
(***************************************************************************)
MaxThread == 4     \* messages rendered into the thread
MaxOpens == 2      \* window.open calls recorded

(***************************************************************************)
(* lib/tambo.ts: the registry.                                             *)
(***************************************************************************)
tools == << >>

componentsDuplicateName ==
  << [name |-> "Graph", description |-> "Use this when you want to display a chart. It supports bar, line, and pie charts. When you see data generally use this component.",
      component |-> "Graph", propsSchema |-> "graphSchema"],
     [name |-> "DataCards", description |-> "Use this when you want to display a list of information (>2 elements) that user might want to select from. Not anything that is a list or has links. ",
      component |-> "DataCard", propsSchema |-> "dataCardSchema"],
     [name |-> "EditableIssueTable", description |-> "Displays a table of Linear issues with inline editing for title, description, assignee, and status. Allows batch saving of changes. Use when you want to let users review and edit multiple issues at once.",
      component |-> "EditableIssueTableWithTamboSave", propsSchema |-> "editableIssueTableSchema"],
     [name |-> "EditableIssueTable", description |-> "Renders Mermaid diagrams in the browser. Use this when you want to display flowcharts, sequence diagrams, gantt charts, or any other diagram that can be defined with Mermaid syntax. Supports different themes and customizable dimensions.",
      component |-> "RenderDiagram", propsSchema |-> "renderDiagramSchema"] >>

components ==
  << [name |-> "Graph", description |-> "Use this when you want to display a chart. It supports bar, line, and pie charts. When you see data generally use this component.",
      component |-> "Graph", propsSchema |-> "graphSchema"],
     [name |-> "DataCards", description |-> "Use this when you want to display a list of information (>2 elements) that user might want to select from. Not anything that is a list or has links. ",
      component |-> "DataCard", propsSchema |-> "dataCardSchema"],
     [name |-> "EditableIssueTable", description |-> "Displays a table of Linear issues with inline editing for title, description, assignee, and status. Allows batch saving of changes. Use when you want to let users review and edit multiple issues at once.",
      component |-> "EditableIssueTableWithTamboSave", propsSchema |-> "editableIssueTableSchema"],
     [name |-> "RenderDiagram", description |-> "Renders Mermaid diagrams in the browser. Use this when you want to display flowcharts, sequence diagrams, gantt charts, or any other diagram that can be defined with Mermaid syntax. Supports different themes and customizable dimensions.",
      component |-> "RenderDiagram", propsSchema |-> "renderDiagramSchema"] >>

(***************************************************************************)
(* app/page.tsx: Home renders <TamboProvider components={components}>; the *)
(* message thread under it shows the registered components the agent picks *)
(* by name.                                                                *)
(***************************************************************************)
Home ==
  /\ provider' = components
  /\ UNCHANGED <<thread, cardVars, tableVars, diagramVars>>

MessageThreadFull ==
  /\ Len(thread) < MaxThread
  /\ \E i \in DOMAIN provider :
       thread' = Append(thread, provider[i].name)
  /\ UNCHANGED <<provider, cardVars, tableVars, diagramVars>>

(***************************************************************************)
(* components/ui/card-data.tsx                                             *)
(***************************************************************************)
NoUrl == NULL

\* The options prop: cards with and without a url.
options ==
  << [id |-> "1", value |-> "a", url |-> NoUrl],
     [id |-> "2", value |-> "b", url |-> "https://b.example"],
     [id |-> "3", value |-> "c", url |-> NoUrl] >>

\* Array.prototype.indexOf, 1-based; 0 stands for -1.
indexOf(s, x) ==
  IF \E i \in DOMAIN s : s[i] = x
    THEN CHOOSE i \in DOMAIN s : s[i] = x /\ \A j \in 1..(i - 1) : s[j] # x
    ELSE 0

\* Array.prototype.splice(index, 1) on a copy.
splice1(s, i) == SubSeq(s, 1, i - 1) \o SubSeq(s, i + 1, Len(s))

handleToggleCardNoRemove(st, value) ==
  IF ~st.defined THEN st
  ELSE [st EXCEPT !.selectedValues = Append(@, value)]

handleToggleCard(st, value) ==
  IF ~st.defined THEN st
  ELSE LET selectedValues == st.selectedValues
           index == indexOf(selectedValues, value)
       IN  IF index > 0
             THEN [st EXCEPT !.selectedValues = splice1(selectedValues, index)]
             ELSE [st EXCEPT !.selectedValues = Append(selectedValues, value)]

handleNavigateNever(opens, url) == opens

\* window.open is called only for a truthy url.
handleNavigate(opens, url) ==
  IF url # NoUrl /\ url # "" THEN Append(opens, url) ELSE opens

Last2(h) == IF Len(h) > 2 THEN SubSeq(h, Len(h) - 1, Len(h)) ELSE h

Remember(target, op, arg) ==
  cardHist' = Last2(Append(cardHist,
                [target |-> target, op |-> op, arg |-> arg,
                 before |-> state.selectedValues]))

\* onClick of the checkbox of a card.
CheckboxClick ==
  \E i \in DOMAIN options :
    /\ state' = handleToggleCard(state, options[i].value)
    /\ Remember(<<"checkbox", i>>, "toggle", options[i].value)
    /\ UNCHANGED <<windowOpens, pageVars, tableVars, diagramVars>>

\* onClick of the body of a card.
BodyClick ==
  \E i \in DOMAIN options :
    LET card == options[i] IN
    /\ IF card.url # NoUrl /\ card.url # ""
         THEN /\ Len(windowOpens) < MaxOpens
              /\ windowOpens' = handleNavigate(windowOpens, card.url)
              /\ Remember(<<"body", i>>, "navigate", card.url)
              /\ UNCHANGED state
         ELSE /\ state' = handleToggleCard(state, card.value)
              /\ Remember(<<"body", i>>, "toggle", card.value)
              /\ UNCHANGED windowOpens
    /\ UNCHANGED <<pageVars, tableVars, diagramVars>>

(***************************************************************************)
(* components/ui/editable-issue-table.tsx                                  *)
(***************************************************************************)
MaxOverrides == 2  \* field overrides held in the edit buffer at once
MaxSaves == 2      \* onSave invocations in one run

\* JavaScript values that reach the edit buffer, with their type.
Str(s) == [t |-> "string", s |-> s, n |-> 0]
Num(n) == [t |-> "number", s |-> "", n |-> n]
Null == [t |-> "null", s |-> "", n |-> 0]

Truthy(v) == (v.t = "string" /\ v.s # "") \/ (v.t = "number" /\ v.n # 0)

\* Number(string) for the values of the priority <option>s.
Number(s) ==
  CASE s = "0" -> 0 [] s = "1" -> 1 [] s = "2" -> 2
    [] s = "3" -> 3 [] s = "4" -> 4 [] OTHER -> 0

\* Template-literal conversion `${value}`.
Text(v) ==
  CASE v.t = "string" -> v.s
    [] v.t = "number" -> ToString(v.n)
    [] OTHER -> "null"

\* A JavaScript object with string keys, as its entries in insertion order.
ObjKeys(o) == [i \in 1..Len(o) |-> o[i].k]
ObjHas(o, key) == \E i \in DOMAIN o : o[i].k = key
ObjGet(o, key) == o[CHOOSE i \in DOMAIN o : o[i].k = key].v
\* { ...o, [key]: val }: an existing key keeps its place, a new one goes last.
ObjSet(o, key, val) ==
  IF ObjHas(o, key)
    THEN [i \in 1..Len(o) |-> IF o[i].k = key THEN [k |-> key, v |-> val] ELSE o[i]]
    ELSE Append(o, [k |-> key, v |-> val])
\* { ...o }, where o may be undefined.
Spread(o, key) == IF ObjHas(o, key) THEN ObjGet(o, key) ELSE << >>

\* The issues the host may supply; the second list is the first one after the
\* identifier of issue "a" has arrived.
IssueA == [id |-> "a", identifier |-> NULL]
IssueALin == [id |-> "a", identifier |-> "LIN-1"]
IssueB == [id |-> "b", identifier |-> NULL]
HostIssues == { <<IssueA, IssueB>>, <<IssueALin, IssueB>>, <<IssueB>> }

\* Props of the registered component; the schema lets the host pass onSave.
HostProps ==
  {[issues |-> l] : l \in HostIssues}
    \cup {[issues |-> l, onSave |-> "hostOnSave"] : l \in HostIssues}

\* issue.identifier ?? issue.id
recordId(issue) ==
  IF issue.identifier # NULL THEN issue.identifier ELSE issue.id

\* What the inputs and selects of a row pass to handleFieldChange.
ChangeEvents ==
  {[field |-> "title", value |-> Str(x)] : x \in {"T1", "T2"}}
    \cup {[field |-> "assigneeId",
           value |-> IF x = "" THEN Null ELSE Str(x)] : x \in {"", "u1"}}
    \cup {[field |-> "priority", value |-> Str(x)] : x \in {"0", "3"}}

storedValueKeepsString(field, value) == value

\* field === "priority" ? (value ? Number(value) : 0) : value
storedValue(field, value) ==
  IF field = "priority"
    THEN (IF Truthy(value) THEN Num(Number(value.s)) ELSE Num(0))
    ELSE value

handleFieldChangeDropsOthers(prev, saving, id, field, value) ==
  IF saving THEN prev
  ELSE ObjSet(prev, id, <<[k |-> field, v |-> storedValue(field, value)]>>)

handleFieldChangeWhileSaving(prev, saving, id, field, value) ==
  ObjSet(prev, id, ObjSet(Spread(prev, id), field, storedValue(field, value)))

handleFieldChangeFirstWriteWins(prev, saving, id, field, value) ==
  IF saving \/ ObjHas(Spread(prev, id), field) THEN prev
  ELSE ObjSet(prev, id, ObjSet(Spread(prev, id), field, storedValue(field, value)))

handleFieldChange(prev, saving, id, field, value) ==
  IF saving THEN prev
  ELSE ObjSet(prev, id, ObjSet(Spread(prev, id), field, storedValue(field, value)))

\* Object.entries(editState).filter(...).map(([id, fields]) => ({id, changes: fields}))
changesOf(es) ==
  LET kept == SelectSeq(es, LAMBDA e : Len(ObjKeys(ObjGet(es, e.k))) > 0)
  IN  [i \in 1..Len(kept) |-> [id |-> kept[i].k, changes |-> kept[i].v]]

\* The onSave invocations of one handleSave run: their arguments, in order.
handleSaveInvokes(es) ==
  IF Len(changesOf(es)) > 0 THEN <<changesOf(es)>> ELSE << >>

\* try { await onSave(changes); setEditState({}) } finally { setIsSaving(false) }
afterOnSaveAlwaysClears(es, outcome) == << >>

afterOnSaveLosesOnReject(es, outcome) ==
  IF outcome = "resolved" THEN << >> ELSE Tail(es)

afterOnSave(es, outcome) == IF outcome = "resolved" THEN << >> ELSE es

\* ---- EditableIssueTableWithTamboSave

\* <EditableIssueTable {...props} onSave={handleSave} />
forwardedPropsKeepsHostOnSave(p) ==
  [k \in DOMAIN p \cup {"onSave"} |->
     IF k \in DOMAIN p THEN p[k] ELSE "handleSave"]

forwardedProps(p) ==
  [k \in DOMAIN p \cup {"onSave"} |->
     IF k = "onSave" THEN "handleSave" ELSE p[k]]

formatPriority(priority) ==
  CASE priority = 0 -> "No priority"
    [] priority = 1 -> "Urgent"
    [] priority = 2 -> "High"
    [] priority = 3 -> "Normal"
    [] priority = 4 -> "Low"
    [] OTHER -> "Unknown"

\* field.charAt(0).toUpperCase() + field.slice(1)
fieldName(field) ==
  CASE field = "title" -> "Title"
    [] field = "description" -> "Description"
    [] field = "status" -> "Status"
    [] field = "assigneeId" -> "AssigneeId"
    [] field = "priority" -> "Priority"
    [] OTHER -> field

displayValue(field, value) ==
  IF field = "priority" /\ value.t = "number" THEN formatPriority(value.n)
  ELSE IF field = "assigneeId"
         THEN (IF Truthy(value) THEN Text(value) ELSE "Unassigned")
         ELSE Text(value)

fieldLines(fields) ==
  [i \in 1..Len(fields) |->
     <<"- **", fieldName(fields[i].k), "**: ", displayValue(fields[i].k, fields[i].v), "\n">>]

RECURSIVE issueSections(_, _)
issueSections(changes, index) ==
  IF index > Len(changes) THEN << >>
  ELSE <<<<"### Issue ", changes[index].id, "\n\n">>>>
         \o fieldLines(changes[index].changes)
         \o (IF index < Len(changes) THEN <<<<"\n">>>> ELSE << >>)
         \o issueSections(changes, index + 1)

\* The markdown message, as the pieces appended to content.
messageContent(changes) ==
  << <<"## Linear Issue Updates\n\n">>,
     <<"Please update the following ", ToString(Len(changes)), " issue",
       IF Len(changes) > 1 THEN "s" ELSE "", " in Linear:\n\n">> >>
    \o issueSections(changes, 1)

\* onSave(changes) as the table calls it: the promise it leaves pending.
invokeOnSave(onSave, changes) ==
  IF onSave = "handleSave"
    THEN [fn |-> "sendThreadMessage", batch |-> changes,
          content |-> messageContent(changes)]
    ELSE [fn |-> onSave, batch |-> changes, content |-> << >>]

Overrides(es) ==
  LET RECURSIVE sum(_)
      sum(i) == IF i > Len(es) THEN 0 ELSE Len(es[i].v) + sum(i + 1)
  IN  sum(1)

\* onChange of an input or select of a row.
FieldChange ==
  \E i \in DOMAIN forwardedProps(props).issues, ev \in ChangeEvents :
    LET id == recordId(forwardedProps(props).issues[i])
        next == handleFieldChange(editState, isSaving, id, ev.field, ev.value)
    IN  /\ Overrides(next) <= MaxOverrides
        /\ editState' = next
        /\ written' = IF isSaving THEN written
                      ELSE [p \in DOMAIN written \cup {<<id, ev.field>>} |->
                              IF p = <<id, ev.field>> THEN ev.value ELSE written[p]]
        /\ tableLast' = [op |-> "change", before |-> editState, batch |-> << >>,
                         callsBefore |-> calls]
        /\ UNCHANGED <<props, isSaving, inflight, calls, pageVars, cardVars, diagramVars>>

\* onClick of the Save button, enabled unless the buffer is empty or a save runs.
SaveClick ==
  /\ ~(Len(ObjKeys(editState)) = 0 \/ isSaving)
  /\ calls.send + calls.host < MaxSaves
  /\ LET invokes == handleSaveInvokes(editState)
         started == [i \in 1..Len(invokes) |->
                       invokeOnSave(forwardedProps(props).onSave, invokes[i])]
         sends == Len(SelectSeq(started, LAMBDA c : c.fn = "sendThreadMessage"))
     IN  /\ isSaving' = (Len(invokes) > 0)
         /\ inflight' = inflight \o started
         /\ calls' = [send |-> calls.send + sends,
                      host |-> calls.host + (Len(started) - sends)]
         /\ tableLast' = [op |-> "save", before |-> editState,
                          batch |-> IF Len(invokes) > 0 THEN invokes[1] ELSE << >>,
                          callsBefore |-> calls]
  /\ UNCHANGED <<props, editState, written, pageVars, cardVars, diagramVars>>

\* A further onClick of the Save button that reaches the render the previous
\* one ran in, before the render requested by setIsSaving(true) is committed:
\* the button is still enabled and handleSave closes over the same editState.
SaveClickAgain ==
  /\ tableLast.op = "save"
  /\ inflight # << >>
  /\ calls.send + calls.host < MaxSaves
  /\ LET invokes == handleSaveInvokes(tableLast.before)
         started == [i \in 1..Len(invokes) |->
                       invokeOnSave(forwardedProps(props).onSave, invokes[i])]
         sends == Len(SelectSeq(started, LAMBDA c : c.fn = "sendThreadMessage"))
     IN  /\ isSaving' = (Len(invokes) > 0)
         /\ inflight' = inflight \o started
         /\ calls' = [send |-> calls.send + sends,
                      host |-> calls.host + (Len(started) - sends)]
         /\ tableLast' = [op |-> "save", before |-> tableLast.before,
                          batch |-> IF Len(invokes) > 0 THEN invokes[1] ELSE << >>,
                          callsBefore |-> calls]
  /\ UNCHANGED <<props, editState, written, pageVars, cardVars, diagramVars>>

OnSaveSettles(outcome) ==
  /\ inflight # << >>
  /\ editState' = afterOnSave(editState, outcome)
  /\ written' = IF editState' = << >> THEN << >> ELSE written
  /\ isSaving' = FALSE
  /\ inflight' = Tail(inflight)
  /\ tableLast' = [op |-> outcome, before |-> editState,
                   batch |-> Head(inflight).batch, callsBefore |-> calls]
  /\ UNCHANGED <<props, calls, pageVars, cardVars, diagramVars>>

\* The promise returned by onSave resolves.
OnSaveResolves == OnSaveSettles("resolved")

\* The promise returned by onSave rejects.
OnSaveRejects == OnSaveSettles("rejected")

\* The host renders the table again with other props.
HostRerender ==
  /\ \E p \in HostProps : p # props /\ props' = p
  /\ tableLast' = [op |-> "props", before |-> editState, batch |-> << >>,
                   callsBefore |-> calls]
  /\ UNCHANGED <<editState, isSaving, inflight, calls, written, pageVars, cardVars, diagramVars>>

(***************************************************************************)
(* components/ui/render-diagram.tsx                                        *)
(***************************************************************************)
MaxPending == 2    \* mermaid.render calls pending at once

\* The diagram strings the host may stream: empty, two that mermaid renders
\* and one it rejects.
DiagramA == "graph TD; A-->B;"
DiagramB == "graph TD; A-->B; B-->C;"
DiagramBad == "graph TD; A--"
Diagrams == {"", DiagramA, DiagramB, DiagramBad}
Themes == {"default", "dark"}
Stages == {"IDLE", "STREAMING_RESPONSE", "COMPLETE"}
DiagramProps == [diagram : Diagrams, theme : Themes, generationStage : Stages]

\* thread?.generationStage === "COMPLETE" || thread?.generationStage === "IDLE"
isComplete(generationStage) ==
  generationStage = "COMPLETE" \/ generationStage = "IDLE"

\* await mermaid.render(id, diagram): the svg, or the exception thrown.
mermaidRender(text) ==
  CASE text = DiagramA -> [ok |-> TRUE, svg |-> "<svg>A-->B</svg>", message |-> ""]
    [] text = DiagramB -> [ok |-> TRUE, svg |-> "<svg>A-->B-->C</svg>", message |-> ""]
    [] OTHER -> [ok |-> FALSE, svg |-> "", message |-> "Parse error on line 1"]

\* err instanceof Error ? `Invalid diagram syntax: ${err.message}` : ...
errorText(result) == "Invalid diagram syntax: " \o result.message

\* The values one render of the component function sees; the effects it
\* schedules close over them.
Scope(p) ==
  [diagram |-> p.diagram, theme |-> p.theme, generationStage |-> p.generationStage,
   isComplete |-> isComplete(p.generationStage),
   isInitialized |-> isInitialized, lastValidSvg |-> lastValidSvg, error |-> error]

\* [theme, isInitialized]
initDepsChanged(old, new) ==
  new.theme # old.theme \/ new.isInitialized # old.isInitialized

\* [isInitialized, diagram, diagramId, isComplete, lastValidSvg, error]
renderDepsChanged(old, new) ==
  \/ new.isInitialized # old.isInitialized
  \/ new.diagram # old.diagram
  \/ new.isComplete # old.isComplete
  \/ new.lastValidSvg # old.lastValidSvg
  \/ new.error # old.error

\* The initialization effect calls mermaid.initialize.
initEffectRunsAlways(c) == TRUE

initEffectRuns(c) == ~c.isInitialized

renderEffectStartsNoDiagramCheck(c, refCurrent) ==
  c.isInitialized /\ refCurrent

\* if (!isInitialized || !diagram || !diagramRef.current) return;
renderEffectStarts(c, refCurrent) ==
  ~(~c.isInitialized \/ c.diagram = "" \/ ~refCurrent)

\* renderDiagram after the await: the try tail, catch and finally.
\* d is [isLoading, error, lastValidSvg, innerHTML]; c the scope of the effect.
renderDiagramSettled(d, c, result, refCurrent) ==
  IF result.ok
    THEN [isLoading |-> FALSE, error |-> d.error, lastValidSvg |-> result.svg,
          innerHTML |-> IF (c.isComplete \/ c.error = NULL) /\ refCurrent
                          THEN result.svg ELSE d.innerHTML]
    ELSE [isLoading |-> FALSE, error |-> errorText(result),
          lastValidSvg |-> d.lastValidSvg,
          innerHTML |-> IF c.isComplete
                          THEN (IF refCurrent THEN "" ELSE d.innerHTML)
                          ELSE (IF refCurrent /\ c.lastValidSvg # NULL /\ c.lastValidSvg # ""
                                  THEN c.lastValidSvg ELSE d.innerHTML)]

Props == <<scope.diagram, scope.theme, scope.generationStage>>

\* What the renderDiagram of a render with scope c closes over.
Closure(c) ==
  [diagram |-> c.diagram, isComplete |-> c.isComplete, error |-> c.error,
   lastValidSvg |-> c.lastValidSvg]

\* The effects of a render with scope c: runInit and runRender say whose
\* dependencies changed, failed whether a render of c.diagram has failed since
\* the diagram and the generation stage last changed.
RunEffects(c, runInit, runRender, failed) ==
  LET inits == runInit /\ initEffectRuns(c)
      starts == runRender /\ renderEffectStarts(c, lifecycle = "mounted")
  IN  /\ starts => Len(renderCalls) < MaxPending
      /\ initializeCalls' = IF inits THEN Append(initializeCalls, c.theme)
                            ELSE initializeCalls
      /\ isInitialized' = IF inits THEN TRUE ELSE isInitialized
      /\ IF starts
           THEN /\ isLoading' = TRUE
                /\ error' = NULL
                /\ innerHTML' = ""
                /\ renderCalls' = Append(renderCalls, Closure(c))
           ELSE UNCHANGED <<isLoading, error, innerHTML, renderCalls>>
      /\ diagramLast' = [op |-> "render", ok |-> TRUE, diagram |-> c.diagram,
                         started |-> starts, retry |-> starts /\ failed,
                         hadValid |-> FALSE, complete |-> FALSE]

\* The first commit: both effects run.
Mount ==
  /\ lifecycle = "created"
  /\ lifecycle' = "mounted"
  /\ LET c == scope IN
       /\ initializeCalls' = IF initEffectRuns(c) THEN Append(initializeCalls, c.theme)
                             ELSE initializeCalls
       /\ isInitialized' = IF initEffectRuns(c) THEN TRUE ELSE isInitialized
       /\ IF renderEffectStarts(c, TRUE)
            THEN /\ isLoading' = TRUE
                 /\ error' = NULL
                 /\ innerHTML' = ""
                 /\ renderCalls' = Append(renderCalls, Closure(c))
            ELSE UNCHANGED <<isLoading, error, innerHTML, renderCalls>>
       /\ diagramLast' = [op |-> "mount", ok |-> TRUE, diagram |-> c.diagram,
                          started |-> renderEffectStarts(c, TRUE), retry |-> FALSE,
                          hadValid |-> FALSE, complete |-> FALSE]
  /\ UNCHANGED <<scope, lastValidSvg, failedFixed, settledCurrent,
                 pageVars, cardVars, tableVars>>

\* The host renders the widget with another diagram or generation stage, or
\* with another theme.
HostRender ==
  /\ lifecycle = "mounted"
  /\ \E p \in DiagramProps :
       LET c == Scope(p) IN
       /\ <<p.diagram, p.theme, p.generationStage>> # Props
       /\ p.theme = scope.theme
            \/ (p.diagram = scope.diagram /\ p.generationStage = scope.generationStage)
       /\ scope' = c
       /\ failedFixed' = IF c.diagram # scope.diagram
                            \/ c.generationStage # scope.generationStage
                          THEN FALSE ELSE failedFixed
       /\ RunEffects(c, initDepsChanged(scope, c), renderDepsChanged(scope, c),
                     failedFixed')
       /\ settledCurrent' = IF c.diagram # scope.diagram THEN FALSE ELSE settledCurrent
  /\ UNCHANGED <<lifecycle, lastValidSvg, pageVars, cardVars, tableVars>>

\* React renders the widget again after a state update.
StateRender ==
  /\ lifecycle = "mounted"
  /\ LET c == Scope(scope) IN
       /\ c # scope
       /\ scope' = c
       /\ RunEffects(c, initDepsChanged(scope, c), renderDepsChanged(scope, c),
                     failedFixed)
  /\ UNCHANGED <<lifecycle, lastValidSvg, failedFixed, settledCurrent,
                 pageVars, cardVars, tableVars>>

\* A pending mermaid.render settles and renderDiagram runs to its end.  After
\* unmount the state setters do nothing and diagramRef.current is null.
RenderSettles ==
  \E i \in DOMAIN renderCalls :
    LET c == renderCalls[i]
        result == mermaidRender(c.diagram)
        d == renderDiagramSettled(
               [isLoading |-> isLoading, error |-> error,
                lastValidSvg |-> lastValidSvg, innerHTML |-> innerHTML],
               c, result, lifecycle = "mounted")
    IN  /\ renderCalls' = SubSeq(renderCalls, 1, i - 1)
                            \o SubSeq(renderCalls, i + 1, Len(renderCalls))
        /\ IF lifecycle = "mounted"
             THEN /\ isLoading' = d.isLoading
                  /\ error' = d.error
                  /\ lastValidSvg' = d.lastValidSvg
                  /\ innerHTML' = d.innerHTML
             ELSE UNCHANGED <<isLoading, error, lastValidSvg, innerHTML>>
        /\ failedFixed' = IF ~result.ok /\ c.diagram = scope.diagram
                               /\ lifecycle = "mounted"
                            THEN TRUE ELSE failedFixed
        /\ settledCurrent' = IF c.diagram = scope.diagram THEN TRUE ELSE settledCurrent
        /\ diagramLast' = [op |-> "settle", ok |-> result.ok, diagram |-> c.diagram,
                           started |-> FALSE, retry |-> FALSE,
                           hadValid |-> c.lastValidSvg # NULL,
                           complete |-> c.isComplete]
        /\ UNCHANGED <<scope, isInitialized, lifecycle, initializeCalls,
                       pageVars, cardVars, tableVars>>

\* The widget leaves the thread.
Unmount ==
  /\ lifecycle = "mounted"
  /\ lifecycle' = "unmounted"
  /\ diagramLast' = [diagramLast EXCEPT !.op = "unmount", !.started = FALSE,
                                        !.retry = FALSE, !.hadValid = FALSE,
                                        !.complete = FALSE]
  /\ UNCHANGED <<scope, isLoading, error, isInitialized, lastValidSvg, innerHTML,
                 renderCalls, initializeCalls, failedFixed,
                 settledCurrent, pageVars, cardVars, tableVars>>

(***************************************************************************)
(* Initial state and specifications.                                       *)
(***************************************************************************)
PageInit ==
  /\ provider = components
  /\ thread = << >>

CardInit ==
  /\ state = [defined |-> TRUE, selectedValues |-> << >>]
  /\ windowOpens = << >>
  /\ cardHist = << >>

TableInit(hostProps) ==
  /\ props \in hostProps
  /\ editState = << >>
  /\ isSaving = FALSE
  /\ inflight = << >>
  /\ calls = [send |-> 0, host |-> 0]
  /\ written = << >>
  /\ tableLast = [op |-> "none", before |-> << >>, batch |-> << >>,
                  callsBefore |-> [send |-> 0, host |-> 0]]

DiagramInit(hostProps) ==
  /\ \E p \in hostProps :
       scope = [diagram |-> p.diagram, theme |-> p.theme,
                generationStage |-> p.generationStage,
                isComplete |-> isComplete(p.generationStage),
                isInitialized |-> FALSE, lastValidSvg |-> NULL, error |-> NULL]
  /\ isLoading = TRUE
  /\ error = NULL
  /\ isInitialized = FALSE
  /\ lastValidSvg = NULL
  /\ innerHTML = ""
  /\ lifecycle = "created"
  /\ renderCalls = << >>
  /\ initializeCalls = << >>
  /\ failedFixed = FALSE
  /\ settledCurrent = FALSE
  /\ diagramLast = [op |-> "none", ok |-> TRUE, diagram |-> scope.diagram,
                    started |-> FALSE, retry |-> FALSE, hadValid |-> FALSE, complete |-> FALSE]

\* The page with one table and one diagram in the thread, as first rendered.
Init ==
  /\ PageInit
  /\ CardInit
  /\ TableInit({[issues |-> <<IssueA, IssueB>>]})
  /\ DiagramInit({[diagram |-> DiagramA, theme |-> "default",
                   generationStage |-> "STREAMING_RESPONSE"]})

Next == Home \/ MessageThreadFull

Spec == Init /\ [][Next]_vars

CardNext == CheckboxClick \/ BodyClick

CardSpec == Init /\ [][CardNext]_vars

TableNext == FieldChange \/ SaveClick \/ OnSaveResolves \/ OnSaveRejects \/ HostRerender

\* The table as first rendered with any props of the host.
TableSpecInit ==
  /\ PageInit
  /\ CardInit
  /\ TableInit(HostProps)
  /\ DiagramInit({[diagram |-> DiagramA, theme |-> "default",
                   generationStage |-> "STREAMING_RESPONSE"]})

TableSpec == TableSpecInit /\ [][TableNext]_vars

\* The table, under props that stay the same, when Save activations may also
\* arrive before the previous one is rendered.
TableBurstNext ==
  FieldChange \/ SaveClick \/ SaveClickAgain \/ OnSaveResolves \/ OnSaveRejects

TableBurstSpec == Init /\ [][TableBurstNext]_vars

DiagramNext == Mount \/ HostRender \/ StateRender \/ RenderSettles \/ Unmount

\* The diagram as first rendered with any diagram and generation stage and the
\* default theme of the schema.
DiagramSpecInit ==
  /\ PageInit
  /\ CardInit
  /\ TableInit({[issues |-> <<IssueA, IssueB>>]})
  /\ DiagramInit({p \in DiagramProps : p.theme = "default"})

DiagramSpec == DiagramSpecInit /\ [][DiagramNext]_vars

\* The host renders the widget with another theme only.
HostRenderSameDiagram ==
  /\ HostRender
  /\ scope'.diagram = scope.diagram
  /\ scope'.generationStage = scope.generationStage

\* The diagram with the diagram prop and the generation stage held fixed: React
\* performs every render it scheduled and every mermaid.render settles.
DiagramFixedNext == Mount \/ HostRenderSameDiagram \/ StateRender \/ RenderSettles

DiagramFixedSpec ==
  /\ DiagramSpecInit
  /\ [][DiagramFixedNext]_vars
  /\ WF_vars(Mount)
  /\ WF_vars(StateRender)
  /\ WF_vars(RenderSettles)

(***************************************************************************)
(* Properties.                                                             *)
(***************************************************************************)
Members(s) == {s[i] : i \in DOMAIN s}
OthersOf(s, v) == SelectSeq(s, LAMBDA x : x # v)
Occurrences(s, v) == Cardinality({i \in DOMAIN s : s[i] = v})

\* C1: a toggle of v flips the membership of v in the selection (absent ->
\* present exactly once, present -> absent) and leaves the other members and
\* their order alone; two consecutive toggles of the same v give back the same
\* members, with the other members in the same order.
C1_ToggleTwiceRestores ==
  /\ (Len(cardHist) >= 1 /\ cardHist[Len(cardHist)].op = "toggle") =>
       LET h == cardHist[Len(cardHist)] IN
       /\ (h.arg \notin Members(h.before)) => Occurrences(state.selectedValues, h.arg) = 1
       /\ (h.arg \in Members(h.before)) => h.arg \notin Members(state.selectedValues)
       /\ OthersOf(state.selectedValues, h.arg) = OthersOf(h.before, h.arg)
  /\ (Len(cardHist) = 2 /\ cardHist[1].op = "toggle" /\ cardHist[2].op = "toggle"
        /\ cardHist[1].arg = cardHist[2].arg) =>
       LET v == cardHist[1].arg
           prior == cardHist[1].before
       IN  /\ Members(state.selectedValues) = Members(prior)
           /\ Occurrences(state.selectedValues, v) = Occurrences(prior, v)
           /\ OthersOf(state.selectedValues, v) = OthersOf(prior, v)

\* Two toggles of a value that was selected before two other values: it is
\* selected again, now last.
C1_Witness ==
  /\ Len(cardHist) = 2
  /\ cardHist[1].op = "toggle" /\ cardHist[2].op = "toggle"
  /\ cardHist[1].arg = cardHist[2].arg
  /\ Len(cardHist[1].before) = 3
  /\ cardHist[1].before[1] = cardHist[1].arg
  /\ state.selectedValues[3] = cardHist[1].arg

\* C2: when the promise of onSave resolves the edit buffer is empty and
\* isSaving is false; no other action (field change, save click, rejected
\* save, new props) empties a buffer that held overrides.
C2_ClearedOnlyOnResolvedSave ==
  /\ tableLast.op = "resolved" => (editState = << >> /\ ~isSaving)
  /\ (tableLast.op \in {"change", "save", "rejected", "props"}
        /\ tableLast.before # << >>) => editState # << >>

C2_Witness ==
  /\ tableLast.op = "resolved"
  /\ Len(tableLast.before) = 2
  /\ editState = << >>
  /\ ~isSaving

\* C3: every key of the edit buffer is the record identifier (identifier if
\* present, otherwise id) of an issue of the current issues prop.
C3_BufferKeysInInput ==
  \A i \in DOMAIN editState :
    \E j \in DOMAIN props.issues : recordId(props.issues[j]) = editState[i].k

WrittenKeys == {p[1] : p \in DOMAIN written}
WrittenFields(id) == {p[2] : p \in {q \in DOMAIN written : q[1] = id}}

\* C7: a handleSave run invokes onSave exactly once, with one entry per edited
\* record and none for any other record; an entry carries the record's key as
\* id and exactly the fields written, each with the value written last; a
\* buffer without overridden fields invokes nothing.
C7_SaveBatch ==
  /\ tableLast.op = "save" =>
       LET batch == tableLast.batch IN
       /\ calls.send + calls.host
            = tableLast.callsBefore.send + tableLast.callsBefore.host + 1
       /\ Len(inflight) = 1 /\ inflight[1].batch = batch
       /\ {batch[i].id : i \in DOMAIN batch} = WrittenKeys
       /\ Len(batch) = Cardinality(WrittenKeys)
       /\ \A i \in DOMAIN batch :
            LET fields == batch[i].changes IN
            /\ {fields[j].k : j \in DOMAIN fields} = WrittenFields(batch[i].id)
            /\ Len(fields) = Cardinality(WrittenFields(batch[i].id))
            /\ \A j \in DOMAIN fields :
                 fields[j].v = storedValue(fields[j].k, written[<<batch[i].id, fields[j].k>>])
  /\ handleSaveInvokes(<< >>) = << >>
  /\ handleSaveInvokes(<<[k |-> "a", v |-> << >>]>>) = << >>

\* A save of two overrides of one record while the other record was not edited.
C7_Witness ==
  /\ tableLast.op = "save"
  /\ Len(tableLast.batch) = 1
  /\ Len(tableLast.batch[1].changes) = 2
  /\ Len(props.issues) = 2

HeadingIds(content) ==
  LET headings == SelectSeq(content, LAMBDA line : line[1] = "### Issue ")
  IN  [i \in 1..Len(headings) |-> headings[i][2]]

\* C9: a save of the registered table makes exactly one sendThreadMessage call,
\* whose content has one heading per changed issue id of the batch; while that
\* call is pending the buffer still holds the batch; the onSave of the props is
\* never invoked.
C9_WrapperSendsThreadMessage ==
  /\ calls.host = 0
  /\ \A i \in DOMAIN inflight : inflight[i].fn = "sendThreadMessage"
  /\ tableLast.op = "save" =>
       /\ calls.send = tableLast.callsBefore.send + 1
       /\ Len(inflight) = 1
       /\ HeadingIds(inflight[1].content)
            = [i \in 1..Len(tableLast.batch) |-> tableLast.batch[i].id]
  /\ inflight # << >> => (isSaving /\ changesOf(editState) = inflight[1].batch)
  /\ tableLast.op = "resolved" => calls.send >= 1

\* The host passed an onSave of its own and a save of two issues completed.
C9_Witness ==
  /\ "onSave" \in DOMAIN props
  /\ tableLast.op = "resolved"
  /\ Len(tableLast.batch) = 2
  /\ calls.send = 1
  /\ editState = << >>

\* C10: the registry holds exactly the four definitions Graph, DataCards,
\* EditableIssueTable and RenderDiagram, each with name, description, props
\* schema and component, with distinct names; tools is empty; the provider
\* holds the registry as defined.
C10_RegistryFixed ==
  /\ [i \in 1..Len(components) |-> components[i].name]
       = <<"Graph", "DataCards", "EditableIssueTable", "RenderDiagram">>
  /\ \A i \in DOMAIN components :
       /\ DOMAIN components[i] = {"name", "description", "component", "propsSchema"}
       /\ \A f \in DOMAIN components[i] : components[i][f] # ""
  /\ \A i, j \in DOMAIN components : components[i].name = components[j].name => i = j
  /\ tools = << >>
  /\ provider = components
  /\ \A i \in DOMAIN thread : \E j \in DOMAIN components : components[j].name = thread[i]

C10_Witness ==
  /\ provider = components
  /\ Len(thread) >= 2
  /\ thread[1] = "EditableIssueTable"
  /\ thread[2] = "RenderDiagram"

FailedRenderFinished ==
  lifecycle = "mounted" /\ diagramLast.op = "settle" /\ ~diagramLast.ok

\* C4: while generation is in progress, when a render attempt that started
\* during it and after some diagram had rendered successfully fails, the
\* surface is not blank and shows lastValidSvg once the attempt has finished.
C4_FailedRenderKeepsLastValid ==
  (FailedRenderFinished /\ ~isComplete(scope.generationStage)
     /\ ~diagramLast.complete /\ diagramLast.hadValid /\ lastValidSvg # NULL)
    => (innerHTML # "" /\ innerHTML = lastValidSvg)

\* C5: when generation is complete and mermaid.render throws for the current
\* diagram, once the attempt has finished error holds a message, the surface is
\* empty, isLoading is false, and so the error panel (error && isComplete) is
\* shown.
C5_FailedRenderShowsError ==
  (FailedRenderFinished /\ isComplete(scope.generationStage)
     /\ diagramLast.diagram = scope.diagram)
    => (error # NULL /\ innerHTML = "" /\ ~isLoading)

\* C6: once no mermaid.render is pending and a render of the current diagram
\* has settled, lastValidSvg, the surface and error are those of the render of
\* the current diagram (here for a diagram mermaid renders: its svg, no error).
C6_LatestRenderWins ==
  (lifecycle = "mounted" /\ diagramLast.op = "settle" /\ renderCalls = << >>
     /\ settledCurrent /\ mermaidRender(scope.diagram).ok)
    => /\ lastValidSvg = mermaidRender(scope.diagram).svg
       /\ innerHTML = mermaidRender(scope.diagram).svg
       /\ error = NULL

\* C8: after a render of the current diagram has failed, mermaid.render is not
\* called again while neither the diagram nor the generation stage changes.
C8_NoRetry == ~diagramLast.retry

\* C11: when a render attempt whose mermaid.render succeeded has finished, the
\* surface shows the svg that attempt produced, also for an attempt that ran
\* during streaming after an earlier attempt had failed.
C11_SuccessfulRenderShown ==
  (lifecycle = "mounted" /\ diagramLast.op = "settle" /\ diagramLast.ok)
    => innerHTML = mermaidRender(diagramLast.diagram).svg

\* C12: mermaid.initialize is called at most once per widget instance, and once
\* called, no re-render or change of props (the theme included) calls it again.
C12_InitializeOnce ==
  /\ [](Len(initializeCalls) <= 1)
  /\ [][initializeCalls # << >> => initializeCalls' = initializeCalls]_vars

C12_Witness ==
  /\ lifecycle = "mounted"
  /\ diagramLast.op = "render"
  /\ Len(initializeCalls) = 1
  /\ scope.theme # initializeCalls[1]

\* A step in which the widget renders and its effects run.
RenderStep ==
  scope' # scope \/ (lifecycle = "created" /\ lifecycle' = "mounted")

\* C13: mermaid.render is started only after mermaid.initialize, for a
\* non-empty diagram and with the surface present; a render whose effect guard
\* fails leaves isLoading, error, lastValidSvg and the surface as they were.
C13_NoRenderBeforeReady ==
  /\ [](diagramLast.started
          => /\ initializeCalls # << >>
             /\ scope.isInitialized
             /\ scope.diagram # ""
             /\ lifecycle = "mounted")
  /\ [](\A i \in DOMAIN renderCalls : renderCalls[i].diagram # "")
  /\ [][(RenderStep /\ (~scope'.isInitialized \/ scope'.diagram = ""))
          => UNCHANGED <<isLoading, error, lastValidSvg, innerHTML, renderCalls>>]_vars

C13_Witness ==
  /\ lifecycle = "mounted"
  /\ diagramLast.op = "render"
  /\ scope.isInitialized
  /\ scope.diagram = ""
  /\ ~diagramLast.started
  /\ renderCalls = << >>
  /\ isLoading

\* The priority scale of the schema, and the values of the priority options.
PriorityScale ==
  [n \in 0..4 |-> CASE n = 0 -> "No priority" [] n = 1 -> "Urgent"
                    [] n = 2 -> "High" [] n = 3 -> "Normal" [] OTHER -> "Low"]

OptionNumber == [x \in {"", "0", "1", "2", "3", "4"} |->
                   CASE x = "1" -> 1 [] x = "2" -> 2 [] x = "3" -> 3
                     [] x = "4" -> 4 [] OTHER -> 0]

\* The lines of a message that name the field of the given name.
LinesOf(content, name) ==
  SelectSeq(content, LAMBDA line : Len(line) = 5 /\ line[2] = name)

\* C14: a priority change stores the number of the selected option (0 for an
\* empty value) in the edit buffer, and the save message names a priority by
\* the scale of the schema, any number outside 0..4 as Unknown.
C14_PriorityMapping ==
  /\ \A x \in DOMAIN OptionNumber :
       storedValue("priority", Str(x)) = Num(OptionNumber[x])
  /\ storedValue("priority", Null) = Num(0)
  /\ \A n \in 0..4 : displayValue("priority", Num(n)) = PriorityScale[n]
  /\ \A n \in {-1, 5, 6} : displayValue("priority", Num(n)) = "Unknown"
  /\ \A i \in DOMAIN editState : \A j \in DOMAIN editState[i].v :
       editState[i].v[j].k = "priority"
         => /\ editState[i].v[j].v.t = "number"
            /\ editState[i].v[j].v = Num(OptionNumber[written[<<editState[i].k, "priority">>].s])
  /\ \A c \in DOMAIN inflight : \A i \in DOMAIN inflight[c].batch :
       LET fields == inflight[c].batch[i].changes
           shown == LinesOf(fieldLines(fields), "Priority")
       IN  \A j \in DOMAIN fields :
             fields[j].k = "priority"
               => /\ Len(shown) = 1
                  /\ shown[1][4] = PriorityScale[fields[j].v.n]
                  /\ \E l \in DOMAIN inflight[c].content :
                       inflight[c].content[l] = shown[1]

\* A save in flight whose message names the priority Normal.
C14_Witness ==
  /\ tableLast.op = "save"
  /\ inflight # << >>
  /\ \E l \in DOMAIN inflight[1].content :
       inflight[1].content[l] = <<"- **", "Priority", "**: ", "Normal", "\n">>

\* disabled={Object.keys(editState).length === 0 || isSaving} of the Save button.
SaveDisabled == Len(ObjKeys(editState)) = 0 \/ isSaving

OverrideOf(es, id, field) ==
  IF ObjHas(es, id) /\ ObjHas(ObjGet(es, id), field)
    THEN ObjGet(ObjGet(es, id), field)
    ELSE [t |-> "undefined", s |-> "", n |-> 0]

\* The value the buffer is to hold for a change event.
ExpectedOverride(ev) ==
  IF ev.field = "priority"
    THEN Num(OptionNumber[IF ev.value.t = "string" THEN ev.value.s ELSE ""])
    ELSE ev.value

RecordIds == {"a", "b", "LIN-1"}
FieldNames == {"title", "description", "assigneeId", "status", "priority"}

\* C18: a field change made while not saving sets the override of that field
\* of that record to the new value, whatever it was before, leaves every other
\* override as it was, and changes neither isSaving nor the onSave calls.
C18_FieldChangeFrame ==
  [][(tableLast'.op = "change" /\ ~isSaving)
       => /\ \E id \in RecordIds, ev \in ChangeEvents :
               /\ <<id, ev.field>> \in DOMAIN written'
               /\ written'[<<id, ev.field>>] = ev.value
               /\ \A q \in DOMAIN written' \ {<<id, ev.field>>} :
                    q \in DOMAIN written /\ written'[q] = written[q]
               /\ OverrideOf(editState', id, ev.field) = ExpectedOverride(ev)
               /\ \A r \in RecordIds, f \in FieldNames :
                    <<r, f>> # <<id, ev.field>>
                      => OverrideOf(editState', r, f) = OverrideOf(editState, r, f)
               /\ \A r \in RecordIds :
                    ObjHas(editState', r) <=> (r = id \/ ObjHas(editState, r))
          /\ UNCHANGED <<isSaving, inflight, calls, props>>]_vars

\* A change that replaced the override of a field while the other record has
\* overrides too.
C18_Witness ==
  /\ tableLast.op = "change"
  /\ ~isSaving
  /\ Len(tableLast.before) = 2
  /\ Len(editState) = 2
  /\ editState # tableLast.before
  /\ Overrides(editState) = Overrides(tableLast.before)

\* C17: at most one onSave invocation is pending at any time, also when two
\* Save activations arrive before the isSaving update is rendered.
C17_OnePendingSave == Len(inflight) <= 1

\* The selection after a toggle of v: v is a member iff it was not, the other
\* members are the same.
Toggled(before, after, v) ==
  /\ (v \in Members(after)) <=> (v \notin Members(before))
  /\ Members(after) \ {v} = Members(before) \ {v}

\* C19: a click on the body of a card with a url opens that url and leaves the
\* selection alone; a click on the body of a card without a url toggles its
\* value; a click on a checkbox toggles the value and opens nothing;
\* handleNavigate without a url does nothing.
C19_Navigation ==
  /\ [](handleNavigate(windowOpens, NoUrl) = windowOpens)
  /\ [][LET h == cardHist'[Len(cardHist')]
            card == options[h.target[2]]
        IN  /\ (h.target[1] = "body" /\ card.url # NoUrl)
                 => /\ windowOpens' = Append(windowOpens, card.url)
                    /\ state' = state
            /\ (h.target[1] = "body" /\ card.url = NoUrl)
                 => /\ windowOpens' = windowOpens
                    /\ Toggled(state.selectedValues, state'.selectedValues, card.value)
            /\ h.target[1] = "checkbox"
                 => /\ windowOpens' = windowOpens
                    /\ Toggled(state.selectedValues, state'.selectedValues, card.value)
       ]_vars

\* The card with a url, selected by its checkbox, after a click on its body.
C19_Witness ==
  /\ cardHist # << >>
  /\ cardHist[Len(cardHist)].op = "navigate"
  /\ windowOpens = <<"https://b.example">>
  /\ "b" \in Members(state.selectedValues)

\* No render attempt is pending, none is about to start, and isLoading is false.
Quiescent ==
  /\ lifecycle = "mounted"
  /\ renderCalls = << >>
  /\ ~isLoading
  /\ <<scope.isInitialized, scope.lastValidSvg, scope.error>>
       = <<isInitialized, lastValidSvg, error>>

\* C20: with a non-empty diagram and the generation stage held fixed, the
\* widget eventually stays quiescent: nothing is pending or about to start and
\* isLoading is false, with the svg shown and no error for a diagram mermaid
\* renders.
C20_Quiescence ==
  scope.diagram # ""
    => <>[](/\ Quiescent
            /\ mermaidRender(scope.diagram).ok
                 => (error = NULL /\ innerHTML = mermaidRender(scope.diagram).svg))

=============================================================================
